---- MODULE Spec2Model ----
(***************************************************************************)
(* A model of the research backend of decipher-research-agent:             *)
(*   - TaskManager._execute_task / submit_task_async (task_service.py),    *)
(*   - run_research_crew (topic_research_agent.py),                        *)
(*   - QdrantSourceStore (qdrant_service.py).                              *)
(* Spec       : one submitted task, its execution and the pipeline it runs.*)
(* FairSpec   : Spec with every enabled step eventually taken.             *)
(* PairSpec   : two tasks submitted against the one notebook, the pipeline *)
(*              reduced to its outcome.                                    *)
(* StoreSpec  : a source store: its construction, then a bounded number of *)
(*              add_source and delete_by_notebook_id calls.                *)
(* ChunkSpec  : _chunk_text on every configuration and text of the bounds. *)
(***************************************************************************)
EXTENDS Integers, Sequences, FiniteSets, TLC

\* ------------------------------------------------------------------ bounds
\* Largest number of search queries the Plan stage returns.
MaxQueries == 2
\* Largest number of links one link-collector invocation returns.
MaxLinks == 2
\* Largest number of tokens of a plain text.
MaxTokens == 7
\* Largest chunk_size of a configuration.
MaxChunkSize == 5
\* StoreSpec: the number of calls, the chunk_size, the largest number of
\* tokens of a content.
MaxCalls == 2
MaxStoreChunkSize == 2
MaxStoreTokens == 2

\* ------------------------------------------------------------- input sets
\* The urls the search engine can return.
Urls == {"u1", "u2"}
\* str(e) of the exceptions the collaborators raise.
ErrMsgs == {"E1", "E2"}
\* Optional values: <<>> is None, <<v>> is the value v.
Topics == {<<>>, <<"">>, <<"quantum batteries">>}
SourceLists == {<<>>, << <<>> >>, << <<"URL">> >>}

\* ------------------------------------------------------------- variables
VARIABLES
  \* TaskManager
  topic,          \* argument of submit_task_async / _execute_task
  sources,        \* argument of submit_task_async / _execute_task
  task,           \* the Task record of the Task Repository
  notebook,       \* the Notebook record of the Notebook Repository
  pc,             \* position of _execute_task
  retry_count,    \* local of _execute_task
  result,         \* local of _execute_task: <<>> until run_research_crew returned
  exc,            \* the exception e caught (or escaping): <<>> or <<str(e)>>
  \* run_research_crew
  ppc,            \* position of run_research_crew
  search_queries, \* the queries of the Plan stage (1..n)
  lc,             \* link_collector_tasks: per query, its state and result
  links,          \* the canonical (deduplicated) links
  ws,             \* web_scraping_tasks: per link, its state and result
  scraped_data,   \* the documents handed to the research/content crew
  gather_exc,     \* the exception asyncio.gather propagates: first failure
  \* history
  invoked,        \* the stages that have been started
  plan_failed,    \* the Plan stage raised
  merged,         \* the dedup merge of lines 196-202 has run
  out_of_order,   \* a link collector completed before one of an earlier query
  repo_fault,     \* some repository write raised
  attempts,       \* the number of calls of run_research_crew (line 38)
  task_records,   \* the number of Task records created (line 92)
  scrape_out_of_order, \* a scraper completed before one of an earlier link
  \* QdrantSourceStore
  chunk_size,     \* self.chunk_size
  chunk_overlap,  \* self.chunk_overlap
  points,         \* the points of the collection, in insertion order
  next_id,        \* the next fresh identifier uuid.uuid4() returns
  calls,          \* the number of calls made to the store
  last,           \* the last call: its arguments and its outcome
  collection,     \* the collection at the vector index: absent, created
                  \* (without the notebook_id index) or indexed
  creates,        \* the number of collections create_collection has created
  constructed,    \* an instance exists: some __init__ has returned
  \* TaskManager, several tasks submitted against the one notebook
  tin,            \* per task: the arguments topic and sources
  tasks,          \* per task: its Task record
  tpc,            \* per task: the position of its _execute_task
  tretry,         \* per task: retry_count
  tres,           \* per task: result
  texc            \* per task: the exception caught (or escaping)

tmVars == <<topic, sources, task, notebook, pc, retry_count, result, exc>>
tmVarsButNotebook == <<topic, sources, task, pc, retry_count, result, exc>>
plVars == <<ppc, search_queries, lc, links, ws, scraped_data, gather_exc>>
hVars  == <<invoked, plan_failed, merged, out_of_order, repo_fault>>
cVars  == <<attempts, task_records, scrape_out_of_order>>
stVars == <<chunk_size, chunk_overlap, points, next_id, calls, last>>
bVars  == <<collection, creates, constructed>>
mVars  == <<tin, tasks, tpc, tretry, tres, texc>>
vars   == <<tmVars, plVars, hVars, cVars, cVars, stVars, bVars, mVars>>

\* ------------------------------------------------------ program constants
max_retries == 1
default_chunk_size == 512
default_chunk_overlap == 50

\* --------------------------------------------- repositories (interfaces)
create_task ==
  [status |-> "pending", result |-> <<>>, error |-> <<>>]
update_task_status(t, s) ==
  [t EXCEPT !.status = s]
update_task_result(t, r, s) ==
  [t EXCEPT !.result = <<r>>, !.status = s]
update_task_error(t, msg) ==
  [t EXCEPT !.status = "failed", !.error = <<msg>>]
update_notebook_status(nb, s, msg) ==
  [nb EXCEPT !.status = s, !.message = msg]
save_notebook_output(nb, out) ==
  [nb EXCEPT !.output = out]
update_notebook(nb, title, tp) ==
  [nb EXCEPT !.title = title, !.topic = tp]

\* Python truthiness of the two optional arguments.
HasTopic == topic # <<>> /\ topic[1] # ""
HasSources == sources # <<>> /\ Len(sources[1]) > 0

\* ----------------------------------------------------------- the pipeline
\* The links invocation q returns for the url sequence us: every link gets a
\* title of its own, so that the entry kept by the merge can be told apart.
MkLinks(q, us) ==
  [i \in 1..Len(us) |-> [url |-> us[i], title |-> <<q, i>>]]

UrlSeqs == UNION {[1..k -> Urls] : k \in 0..MaxLinks}

UrlsOf(ls) == {ls[k].url : k \in DOMAIN ls}

\* Mutant of DedupList: the membership test compares links, not urls.
RECURSIVE DedupList_ByLink(_, _)
DedupList_ByLink(acc, rl) ==
  IF rl = <<>> THEN acc
  ELSE DedupList_ByLink(IF Head(rl) \in {acc[k] : k \in DOMAIN acc} THEN acc
                        ELSE Append(acc, Head(rl)), Tail(rl))

\* Lines 200-202: append the links of one result whose url is not yet there.
RECURSIVE DedupList(_, _)
DedupList(acc, rl) ==
  IF rl = <<>> THEN acc
  ELSE DedupList(IF Head(rl).url \in UrlsOf(acc) THEN acc
                 ELSE Append(acc, Head(rl)), Tail(rl))

\* Lines 196-202: over the results in the order gather returns them.
RECURSIVE DedupAll(_, _)
DedupAll(acc, rs) ==
  IF rs = <<>> THEN acc
  ELSE DedupAll(DedupList(acc, Head(rs).links), Tail(rs))

\* Mutant of Zip: the results are taken in the reverse of the link order.
Zip_Reversed(ls, rs) ==
  [i \in 1..Len(ls) |->
     [url |-> ls[i].url, page_title |-> ls[i].title,
      content |-> rs[Len(rs) + 1 - i].raw]]

\* Lines 223-229: zip(links, web_scraping_results).
Zip(ls, rs) ==
  [i \in 1..Len(ls) |->
     [url |-> ls[i].url, page_title |-> ls[i].title, content |-> rs[i].raw]]

Running(ts) == {i \in DOMAIN ts : ts[i].st = "running"}
AllDone(ts) == \A i \in DOMAIN ts : ts[i].st = "done"

\* The exception leaves run_research_crew (lines 247-249) and is caught by
\* the except clause of _execute_task (line 71).
PipelineRaise(msg) ==
  /\ ppc' = "raised"
  /\ pc' = "except"
  /\ exc' = <<msg>>

\* Line 38 and line 24: the call, and the tool adapter opened.
RunStart ==
  /\ pc = "L38" /\ ppc = "idle"
  /\ ppc' = "plan"
  /\ invoked' = invoked \cup {"plan"}
  /\ UNCHANGED <<tmVars, search_queries, lc, links, ws, scraped_data,
                 gather_exc, plan_failed, merged, out_of_order, repo_fault, cVars, stVars, bVars, mVars>>

\* Line 24: the tool adapter cannot be opened.
RunAdapterFails(msg) ==
  /\ pc = "L38" /\ ppc = "idle"
  /\ PipelineRaise(msg)
  /\ UNCHANGED <<topic, sources, task, notebook, retry_count, result,
                 search_queries, lc, links, ws, scraped_data, gather_exc, hVars, cVars, stVars, bVars, mVars>>

\* Lines 164-193: the planning crew returns n queries; one link collector per
\* query is created and gather starts them all.
PlanReturns(n) ==
  /\ pc = "L38" /\ ppc = "plan"
  /\ search_queries' = [q \in 1..n |-> q]
  /\ lc' = [q \in 1..n |-> [st |-> "running", links |-> <<>>]]
  /\ ppc' = "collect"
  /\ invoked' = IF n > 0 THEN invoked \cup {"collect"} ELSE invoked
  /\ UNCHANGED <<tmVars, links, ws, scraped_data, gather_exc,
                 plan_failed, merged, out_of_order, repo_fault, cVars, stVars, bVars, mVars>>

\* Mutant of PlanFails: the exception is swallowed and the pipeline goes on
\* without queries.
PlanFails_Swallowed(msg) ==
  /\ pc = "L38" /\ ppc = "plan"
  /\ plan_failed' = TRUE
  /\ search_queries' = <<>>
  /\ lc' = <<>>
  /\ ppc' = "collect"
  /\ UNCHANGED <<tmVars, links, ws, scraped_data, gather_exc,
                 invoked, merged, out_of_order, repo_fault, cVars, stVars, bVars, mVars>>

\* Line 164: the planning crew raises.
PlanFails(msg) ==
  /\ pc = "L38" /\ ppc = "plan"
  /\ PipelineRaise(msg)
  /\ plan_failed' = TRUE
  /\ UNCHANGED <<topic, sources, task, notebook, retry_count, result,
                 search_queries, lc, links, ws, scraped_data, gather_exc,
                 invoked, merged, out_of_order, repo_fault, cVars, stVars, bVars, mVars>>

\* One link collector completes with its links. Once gather has raised
\* nothing reads the result of a collector that is still running: it is
\* recorded as empty.
CollectCompletes(q, us) ==
  /\ q \in Running(lc)
  /\ ppc = "collect" \/ us = <<>>
  /\ lc' = [lc EXCEPT ![q] = [st |-> "done", links |-> MkLinks(q, us)]]
  /\ out_of_order' = (out_of_order \/ \E r \in Running(lc) : r < q)
  /\ UNCHANGED <<tmVars, ppc, search_queries, links, ws, scraped_data,
                 gather_exc, invoked, plan_failed, merged, repo_fault, cVars, stVars, bVars, mVars>>

\* One link collector raises: gather keeps the first exception.
CollectFails(q, msg) ==
  /\ q \in Running(lc)
  /\ lc' = [lc EXCEPT ![q].st = "failed"]
  /\ gather_exc' = IF gather_exc = <<>> THEN <<msg>> ELSE gather_exc
  /\ UNCHANGED <<tmVars, ppc, search_queries, links, ws, scraped_data, hVars, cVars, stVars, bVars, mVars>>

\* Lines 193-220: gather returns the results in query order; the links are
\* merged; one scraper per link is created and gather starts them all. The
\* results are consumed by the merge: nothing reads them afterwards.
CollectGathered ==
  /\ pc = "L38" /\ ppc = "collect"
  /\ AllDone(lc)
  /\ links' = DedupAll(<<>>, lc)
  /\ merged' = TRUE
  /\ ws' = [i \in 1..Len(links') |->
              [st |-> "running", url |-> links'[i].url, raw |-> <<>>]]
  /\ ppc' = "scrape"
  /\ invoked' = IF Len(links') > 0 THEN invoked \cup {"scrape"} ELSE invoked
  /\ lc' = [q \in DOMAIN lc |-> [st |-> "done", links |-> <<>>]]
  /\ UNCHANGED <<tmVars, search_queries, scraped_data, gather_exc,
                 plan_failed, out_of_order, repo_fault, cVars, stVars, bVars, mVars>>

\* Line 193: gather raises the first exception of a link collector.
CollectGatherRaises ==
  /\ pc = "L38" /\ ppc = "collect"
  /\ gather_exc # <<>>
  /\ PipelineRaise(gather_exc[1])
  /\ UNCHANGED <<topic, sources, task, notebook, retry_count, result,
                 search_queries, lc, links, ws, scraped_data, gather_exc, hVars, cVars, stVars, bVars, mVars>>

\* One scraper completes with the content of the url it was given.
ScrapeCompletes(i) ==
  /\ i \in Running(ws)
  /\ ws' = [ws EXCEPT ![i].st = "done", ![i].raw = <<"raw", ws[i].url>>]
  /\ scrape_out_of_order' =
       (scrape_out_of_order \/ \E r \in Running(ws) : r < i)
  /\ UNCHANGED <<tmVars, ppc, search_queries, lc, links, scraped_data,
                 gather_exc, hVars, attempts, task_records, stVars, bVars, mVars>>

\* One scraper raises: gather keeps the first exception.
ScrapeFails(i, msg) ==
  /\ i \in Running(ws)
  /\ ws' = [ws EXCEPT ![i].st = "failed"]
  /\ gather_exc' = IF gather_exc = <<>> THEN <<msg>> ELSE gather_exc
  /\ UNCHANGED <<tmVars, ppc, search_queries, lc, links, scraped_data, hVars, cVars, stVars, bVars, mVars>>

\* Lines 220-237: gather returns the results in link order; scraped_data is
\* built; the research/content crew is started with it.
ScrapeGathered ==
  /\ pc = "L38" /\ ppc = "scrape"
  /\ AllDone(ws)
  /\ scraped_data' = Zip(links, ws)
  /\ ppc' = "synth"
  /\ invoked' = invoked \cup {"synth"}
  /\ UNCHANGED <<tmVars, search_queries, lc, links, ws, gather_exc,
                 plan_failed, merged, out_of_order, repo_fault, cVars, stVars, bVars, mVars>>

\* Line 220: gather raises the first exception of a scraper.
ScrapeGatherRaises ==
  /\ pc = "L38" /\ ppc = "scrape"
  /\ gather_exc # <<>>
  /\ PipelineRaise(gather_exc[1])
  /\ UNCHANGED <<topic, sources, task, notebook, retry_count, result,
                 search_queries, lc, links, ws, scraped_data, gather_exc, hVars, cVars, stVars, bVars, mVars>>

\* Lines 233-246: the research/content crew returns; run_research_crew
\* returns its result to line 38.
SynthReturns ==
  /\ pc = "L38" /\ ppc = "synth"
  /\ ppc' = "returned"
  /\ result' = << [blog_post |-> "blog_post", title |-> "synth_title",
                   links |-> links, scraped_data |-> scraped_data] >>
  /\ pc' = "L40"
  /\ UNCHANGED <<topic, sources, task, notebook, retry_count, exc,
                 search_queries, lc, links, ws, scraped_data, gather_exc, hVars, cVars, stVars, bVars, mVars>>

\* Line 233: the research/content crew raises.
SynthFails(msg) ==
  /\ pc = "L38" /\ ppc = "synth"
  /\ PipelineRaise(msg)
  /\ UNCHANGED <<topic, sources, task, notebook, retry_count, result,
                 search_queries, lc, links, ws, scraped_data, gather_exc, hVars, cVars, stVars, bVars, mVars>>

\* ------------------------------------------------------------ TaskManager
\* Lines 93-95: the Task is created and its execution scheduled.
submit_task_async ==
  /\ pc = "idle"
  /\ task' = create_task
  /\ task_records' = task_records + 1
  /\ pc' = "L17"
  /\ UNCHANGED <<topic, sources, notebook, retry_count, result, exc,
                 plVars, hVars, attempts, scrape_out_of_order, stVars, bVars, mVars>>

\* Lines 14-21.
ExecNotebookInProgress ==
  /\ pc = "L17"
  /\ notebook' = update_notebook_status(notebook, "in_progress",
                                        "Research task started")
  /\ retry_count' = 0
  /\ pc' = IF retry_count' < max_retries THEN "L26" ELSE "done"
  /\ UNCHANGED <<topic, sources, task, result, exc, plVars, hVars, cVars, stVars, bVars, mVars>>

\* Line 26.
ExecTaskRunning ==
  /\ pc = "L26"
  /\ task' = update_task_status(task, "running")
  /\ pc' = "L33"
  /\ UNCHANGED <<topic, sources, notebook, retry_count, result, exc,
                 plVars, hVars, cVars, stVars, bVars, mVars>>

\* Mutant of ExecDispatch: every input with a topic runs the pipeline.
ExecDispatch_AnyTopic ==
  /\ pc = "L33"
  /\ IF HasTopic THEN pc' = "L38" ELSE pc' = "done"
  /\ attempts' = IF pc' = "L38" THEN attempts + 1 ELSE attempts
  /\ ppc' = "idle"
  /\ UNCHANGED <<topic, sources, task, notebook, retry_count, result, exc,
                 search_queries, lc, links, ws, scraped_data, gather_exc,
                 hVars, task_records, scrape_out_of_order, stVars, bVars, mVars>>

\* Lines 33-57: the dispatch on the shape of the input.
ExecDispatch ==
  /\ pc = "L33"
  /\ IF HasTopic /\ HasSources THEN pc' = "done"
     ELSE IF HasTopic /\ ~HasSources THEN pc' = "L38"
     ELSE pc' = "done"
  /\ attempts' = IF pc' = "L38" THEN attempts + 1 ELSE attempts
  /\ ppc' = "idle"
  /\ UNCHANGED <<topic, sources, task, notebook, retry_count, result, exc,
                 search_queries, lc, links, ws, scraped_data, gather_exc,
                 hVars, task_records, scrape_out_of_order, stVars, bVars, mVars>>

\* Line 40.
ExecSaveOutput ==
  /\ pc = "L40"
  /\ notebook' = save_notebook_output(notebook, result[1].blog_post)
  /\ pc' = "L47"
  /\ UNCHANGED <<topic, sources, task, retry_count, result, exc, plVars, hVars, cVars, stVars, bVars, mVars>>

\* Lines 46-51.
ExecUpdateNotebook ==
  /\ pc = "L47"
  /\ notebook' = update_notebook(notebook, result[1].title, topic[1])
  /\ pc' = "L60"
  /\ UNCHANGED <<topic, sources, task, retry_count, result, exc, plVars, hVars, cVars, stVars, bVars, mVars>>

\* Mutant of ExecTaskCompleted: the status is written without the result.
ExecTaskCompleted_NoResult ==
  /\ pc = "L60"
  /\ task' = update_task_status(task, "completed")
  /\ pc' = "L62"
  /\ UNCHANGED <<topic, sources, notebook, retry_count, result, exc,
                 plVars, hVars, cVars, stVars, bVars, mVars>>

\* Line 60.
ExecTaskCompleted ==
  /\ pc = "L60"
  /\ task' = update_task_result(task, result[1], "completed")
  /\ pc' = "L62"
  /\ UNCHANGED <<topic, sources, notebook, retry_count, result, exc,
                 plVars, hVars, cVars, stVars, bVars, mVars>>

\* Mutant of ExecNotebookProcessed: a statement after the write raises
\* inside the try block.
ExecNotebookProcessed_ThenRaises ==
  /\ pc = "L62"
  /\ notebook' = update_notebook_status(notebook, "processed",
                                        "Research completed successfully")
  /\ exc' = <<"E1">>
  /\ pc' = "except"
  /\ UNCHANGED <<topic, sources, task, retry_count, result, plVars, hVars, cVars, stVars, bVars, mVars>>

\* Lines 62-69.
ExecNotebookProcessed ==
  /\ pc = "L62"
  /\ notebook' = update_notebook_status(notebook, "processed",
                                        "Research completed successfully")
  /\ pc' = "done"
  /\ UNCHANGED <<topic, sources, task, retry_count, result, exc, plVars, hVars, cVars, stVars, bVars, mVars>>

\* A repository write inside the try block raises: line 71 catches it.
TryPositions == {"L26", "L40", "L47", "L60", "L62"}
ExecWriteRaises(msg) ==
  /\ pc \in TryPositions
  /\ exc' = <<msg>>
  /\ pc' = "except"
  /\ repo_fault' = TRUE
  /\ UNCHANGED <<topic, sources, task, notebook, retry_count, result,
                 plVars, invoked, plan_failed, merged, out_of_order, cVars, stVars, bVars, mVars>>

\* Mutant of ExecExcept: the budget test is off by one.
ExecExcept_OffByOne ==
  /\ pc = "except"
  /\ retry_count' = retry_count + 1
  /\ pc' = IF retry_count' <= max_retries THEN "L26" ELSE "L80"
  /\ UNCHANGED <<topic, sources, task, notebook, result, exc, plVars, hVars, cVars, stVars, bVars, mVars>>

\* Lines 71-78: count the attempt; retry while the budget lasts.
ExecExcept ==
  /\ pc = "except"
  /\ retry_count' = retry_count + 1
  /\ pc' = IF retry_count' < max_retries THEN "L26" ELSE "L80"
  /\ UNCHANGED <<topic, sources, task, notebook, result, exc, plVars, hVars, cVars, stVars, bVars, mVars>>

\* Line 80.
ExecTaskError ==
  /\ pc = "L80"
  /\ task' = update_task_error(task, exc[1])
  /\ pc' = "L82"
  /\ UNCHANGED <<topic, sources, notebook, retry_count, result, exc,
                 plVars, hVars, cVars, stVars, bVars, mVars>>

\* Mutant of ExecNotebookError: returns without the Notebook write.
ExecNotebookError_NoWrite ==
  /\ pc = "L82"
  /\ pc' = "done"
  /\ UNCHANGED <<topic, sources, task, notebook, retry_count, result, exc,
                 plVars, hVars, cVars, stVars, bVars, mVars>>

\* Mutant of ExecNotebookError: the message carries the text of the error.
ExecNotebookError_Leaks ==
  /\ pc = "L82"
  /\ notebook' = update_notebook_status(notebook, "error", exc[1])
  /\ pc' = "done"
  /\ UNCHANGED <<topic, sources, task, retry_count, result, exc, plVars, hVars, cVars, stVars, bVars, mVars>>

\* Lines 82-88.
ExecNotebookError ==
  /\ pc = "L82"
  /\ notebook' = update_notebook_status(notebook, "error",
                                        "Research failed. Please try again.")
  /\ pc' = "done"
  /\ UNCHANGED <<topic, sources, task, retry_count, result, exc, plVars, hVars, cVars, stVars, bVars, mVars>>

\* A repository write outside the try block (line 17) or inside the except
\* clause (lines 80, 82) raises: nothing catches it, _execute_task raises.
OpenPositions == {"L17", "L80", "L82"}
ExecWriteEscapes(msg) ==
  /\ pc \in OpenPositions
  /\ exc' = <<msg>>
  /\ pc' = "raised"
  /\ repo_fault' = TRUE
  /\ UNCHANGED <<topic, sources, task, notebook, retry_count, result,
                 plVars, invoked, plan_failed, merged, out_of_order, cVars, stVars, bVars, mVars>>

\* --------------------------- TaskManager: several tasks on one notebook
\* The tasks submitted against the notebook, and the inputs of a task.
TaskIds == {"t1", "t2"}
Shapes == [topic : Topics, sources : SourceLists]

\* Python truthiness of the two optional arguments of task t.
HasTopicOf(t) == tin[t].topic # <<>> /\ tin[t].topic[1] # ""
HasSourcesOf(t) == tin[t].sources # <<>> /\ Len(tin[t].sources[1]) > 0

\* What an execution of task t leaves alone besides its own record and
\* locals: the single-task variables and the store.
OneTaskVars == <<tmVarsButNotebook, plVars, hVars, cVars, stVars, bVars, tin>>

Goto(t, to) == tpc' = [tpc EXCEPT ![t] = to]

\* Lines 90-98 for task t.
SubmitT(t) ==
  /\ tpc[t] = "idle"
  /\ tasks' = [tasks EXCEPT ![t] = create_task]
  /\ Goto(t, "L17")
  /\ UNCHANGED <<OneTaskVars, notebook, tretry, tres, texc>>

\* Mutant of NotebookInProgressT: the Notebook write is left out.
NotebookInProgressT_NoWrite(t) ==
  /\ tpc[t] = "L17"
  /\ tretry' = [tretry EXCEPT ![t] = 0]
  /\ Goto(t, IF 0 < max_retries THEN "L26" ELSE "done")
  /\ UNCHANGED <<OneTaskVars, notebook, tasks, tres, texc>>

\* Lines 14-21 for task t.
NotebookInProgressT(t) ==
  /\ tpc[t] = "L17"
  /\ notebook' = update_notebook_status(notebook, "in_progress",
                                        "Research task started")
  /\ tretry' = [tretry EXCEPT ![t] = 0]
  /\ Goto(t, IF 0 < max_retries THEN "L26" ELSE "done")
  /\ UNCHANGED <<OneTaskVars, tasks, tres, texc>>

\* Line 26 for task t.
TaskRunningT(t) ==
  /\ tpc[t] = "L26"
  /\ tasks' = [tasks EXCEPT ![t] = update_task_status(tasks[t], "running")]
  /\ Goto(t, "L33")
  /\ UNCHANGED <<OneTaskVars, notebook, tretry, tres, texc>>

\* Lines 33-57 for task t.
DispatchT(t) ==
  /\ tpc[t] = "L33"
  /\ Goto(t, IF HasTopicOf(t) /\ HasSourcesOf(t) THEN "done"
             ELSE IF HasTopicOf(t) /\ ~HasSourcesOf(t) THEN "L38"
             ELSE "done")
  /\ UNCHANGED <<OneTaskVars, notebook, tasks, tretry, tres, texc>>

\* Line 38 for task t: run_research_crew returns its result.
RunReturnsT(t) ==
  /\ tpc[t] = "L38"
  /\ tres' = [tres EXCEPT ![t] =
                << [blog_post |-> "blog_post", title |-> "synth_title",
                    links |-> <<>>, scraped_data |-> <<>>] >>]
  /\ Goto(t, "L40")
  /\ UNCHANGED <<OneTaskVars, notebook, tasks, tretry, texc>>

\* Line 38 for task t: run_research_crew raises.
RunRaisesT(t, msg) ==
  /\ tpc[t] = "L38"
  /\ texc' = [texc EXCEPT ![t] = <<msg>>]
  /\ Goto(t, "except")
  /\ UNCHANGED <<OneTaskVars, notebook, tasks, tretry, tres>>

\* Line 40 for task t.
SaveOutputT(t) ==
  /\ tpc[t] = "L40"
  /\ notebook' = save_notebook_output(notebook, tres[t][1].blog_post)
  /\ Goto(t, "L47")
  /\ UNCHANGED <<OneTaskVars, tasks, tretry, tres, texc>>

\* Lines 46-51 for task t.
UpdateNotebookT(t) ==
  /\ tpc[t] = "L47"
  /\ notebook' = update_notebook(notebook, tres[t][1].title, tin[t].topic[1])
  /\ Goto(t, "L60")
  /\ UNCHANGED <<OneTaskVars, tasks, tretry, tres, texc>>

\* Line 60 for task t.
TaskCompletedT(t) ==
  /\ tpc[t] = "L60"
  /\ tasks' = [tasks EXCEPT
                 ![t] = update_task_result(tasks[t], tres[t][1], "completed")]
  /\ Goto(t, "L62")
  /\ UNCHANGED <<OneTaskVars, notebook, tretry, tres, texc>>

\* Lines 62-69 for task t.
NotebookProcessedT(t) ==
  /\ tpc[t] = "L62"
  /\ notebook' = update_notebook_status(notebook, "processed",
                                        "Research completed successfully")
  /\ Goto(t, "done")
  /\ UNCHANGED <<OneTaskVars, tasks, tretry, tres, texc>>

\* A repository write of task t inside the try block raises.
WriteRaisesT(t, msg) ==
  /\ tpc[t] \in {"L26", "L40", "L47", "L60", "L62"}
  /\ texc' = [texc EXCEPT ![t] = <<msg>>]
  /\ Goto(t, "except")
  /\ UNCHANGED <<OneTaskVars, notebook, tasks, tretry, tres>>

\* Lines 71-78 for task t.
ExceptT(t) ==
  /\ tpc[t] = "except"
  /\ tretry' = [tretry EXCEPT ![t] = tretry[t] + 1]
  /\ Goto(t, IF tretry'[t] < max_retries THEN "L26" ELSE "L80")
  /\ UNCHANGED <<OneTaskVars, notebook, tasks, tres, texc>>

\* Line 80 for task t.
TaskErrorT(t) ==
  /\ tpc[t] = "L80"
  /\ tasks' = [tasks EXCEPT ![t] = update_task_error(tasks[t], texc[t][1])]
  /\ Goto(t, "L82")
  /\ UNCHANGED <<OneTaskVars, notebook, tretry, tres, texc>>

\* Lines 82-88 for task t.
NotebookErrorT(t) ==
  /\ tpc[t] = "L82"
  /\ notebook' = update_notebook_status(notebook, "error",
                                        "Research failed. Please try again.")
  /\ Goto(t, "done")
  /\ UNCHANGED <<OneTaskVars, tasks, tretry, tres, texc>>

\* A repository write of task t outside the try block (line 17) or inside
\* the except clause (lines 80, 82) raises: _execute_task raises.
WriteEscapesT(t, msg) ==
  /\ tpc[t] \in {"L17", "L80", "L82"}
  /\ texc' = [texc EXCEPT ![t] = <<msg>>]
  /\ Goto(t, "raised")
  /\ UNCHANGED <<OneTaskVars, notebook, tasks, tretry, tres>>

\* ------------------------------------------------------ QdrantSourceStore
\* A text is a sequence of characters; SP is the whitespace character.
SP == " "
Letters == <<"a", "b", "c", "d", "e", "f", "g", "h", "i", "j">>

\* The text of n one-letter tokens separated by single spaces ("" for n = 0).
PlainText(n) ==
  [k \in 1..(2 * n - 1) |-> IF k % 2 = 1 THEN Letters[(k + 1) \div 2] ELSE SP]

\* The contents handed to the store: plain texts, whitespace only, and texts
\* with leading, doubled and trailing whitespace and a two-letter token.
Texts ==
  {PlainText(n) : n \in 0..MaxTokens}
    \cup {<<SP>>, <<SP, "a", SP, SP, "b", SP>>, <<"a", "b", SP, "c">>}

\* The configurations with chunk_overlap < chunk_size.
Configs ==
  {c \in (1..MaxChunkSize) \X (0..MaxChunkSize) : c[2] < c[1]}

\* The extra metadata of a call: none, or one that names a notebook_id.
EmptyMap == [k \in {} |-> ""]
\* The url, notebook id and extra metadata of the add_source calls: two
\* notebooks for a url, two urls for a notebook, and a metadata map that
\* names a notebook_id of its own.
SourceArgs ==
  {[url |-> "u1", notebook_id |-> "n1", metadata |-> EmptyMap],
   [url |-> "u1", notebook_id |-> "n2", metadata |-> EmptyMap],
   [url |-> "u2", notebook_id |-> "n1", metadata |-> EmptyMap],
   [url |-> "u1", notebook_id |-> "n1", metadata |-> [notebook_id |-> "n2"]]}

Min(a, b) == IF a <= b THEN a ELSE b

\* str.split(): the maximal runs of non-whitespace characters.
RECURSIVE SplitAcc(_, _, _)
SplitAcc(text, cur, acc) ==
  IF text = <<>> THEN (IF cur = <<>> THEN acc ELSE Append(acc, cur))
  ELSE IF Head(text) = SP
       THEN SplitAcc(Tail(text), <<>>,
                     IF cur = <<>> THEN acc ELSE Append(acc, cur))
       ELSE SplitAcc(Tail(text), Append(cur, Head(text)), acc)
Split(text) == SplitAcc(text, <<>>, <<>>)

\* " ".join(tokens)
RECURSIVE Join(_)
Join(toks) ==
  IF toks = <<>> THEN <<>>
  ELSE IF Len(toks) = 1 THEN toks[1]
  ELSE toks[1] \o <<SP>> \o Join(Tail(toks))

\* tokens[i:] and tokens[i:j] with 0 <= i, as Python slices them.
Slice(toks, i, j) == SubSeq(toks, i + 1, Min(j, Len(toks)))

\* range(0, n, step) for step > 0.
Range(n, step) == [k \in 1..((n + step - 1) \div step) |-> (k - 1) * step]

\* _chunk_text, lines 119-134: the text is not empty. [ok |-> TRUE, chunks |->
\* the chunks], or ok = FALSE when the call raises (range() with a step of 0,
\* chunk_starts[-1] of an empty range).
chunk_tokens(text, size, overlap) ==
  LET tokens == Split(text)
      step == size - overlap
      chunk_starts == IF step > 0 THEN Range(Len(tokens), step) ELSE <<>>
      full == SelectSeq(chunk_starts, LAMBDA i : i + size <= Len(tokens))
      chunks == [k \in 1..Len(full) |->
                   Join(Slice(tokens, full[k], full[k] + size))]
  IN IF chunk_starts = <<>> THEN [ok |-> FALSE, chunks |-> <<>>]
     ELSE LET rest == Slice(tokens, chunk_starts[Len(chunk_starts)],
                            Len(tokens))
          IN [ok |-> TRUE,
              chunks |-> IF rest # <<>> THEN Append(chunks, Join(rest))
                         ELSE chunks]

\* Mutant of chunk_text: the guard on the empty text is missing.
chunk_text_NoGuard(text, size, overlap) ==
  chunk_tokens(text, size, overlap)

\* _chunk_text, lines 115-134.
chunk_text(text, size, overlap) ==
  IF text = <<>> THEN [ok |-> TRUE, chunks |-> <<>>]
  ELSE chunk_tokens(text, size, overlap)

\* Lines 177-186: the payload of chunk i; the keys of metadata come last.
Payload(url, chunk, i, total, nb, md) ==
  md @@ [url |-> url, page_title |-> "page_title", content_chunk |-> chunk,
         chunk_index |-> i, total_chunks |-> total, summary |-> "summary",
         notebook_id |-> nb]

\* The places where add_source can raise: nowhere (<<>>), or at chunk k in
\* the embedding call or in the upsert.
FailPoints(n) == {<<>>} \cup ((1..n) \X {"embed", "upsert"})

\* Lines 158-205. The call is synchronous: it runs to its return or to the
\* first call that raises, which leaves the chunks before it in the index.
add_source(url, content, nb, md, fail) ==
  LET r == chunk_text(content, chunk_size, chunk_overlap)
      total == Len(r.chunks)
      k == IF fail = <<>> THEN total ELSE fail[1]
      stored == IF fail = <<>> THEN total ELSE k - 1
      new == [j \in 1..stored |->
                [id |-> next_id + j - 1,
                 vector |-> r.chunks[j],
                 payload |-> Payload(url, r.chunks[j], j - 1, total, nb, md)]]
  IN /\ constructed
     /\ calls < MaxCalls
     /\ fail \in FailPoints(total)
     /\ calls' = calls + 1
     /\ IF ~r.ok
        THEN /\ fail = <<>>
             /\ last' = [op |-> "add_source", url |-> url, content |-> content,
                         notebook_id |-> nb, metadata |-> md,
                         outcome |-> "raised", ret |-> <<>>, first |-> Len(points),
                         embeds |-> 0, upserts |-> 0]
             /\ UNCHANGED <<points, next_id>>
        ELSE /\ points' = points \o new
             /\ next_id' = next_id + k
             /\ last' = [op |-> "add_source", url |-> url, content |-> content,
                         notebook_id |-> nb, metadata |-> md,
                         outcome |-> IF fail = <<>> THEN "returned" ELSE "raised",
                         ret |-> IF fail = <<>>
                                 THEN [j \in 1..total |-> next_id + j - 1]
                                 ELSE <<>>,
                         first |-> Len(points),
                         embeds |-> k,
                         upserts |-> IF fail # <<>> /\ fail[2] = "embed"
                                     THEN k - 1 ELSE k]
     /\ UNCHANGED <<chunk_size, chunk_overlap, tmVars, plVars, hVars, cVars, bVars, mVars>>

\* The call of _create_collection_if_not_exists that raises, if any.
BootFails == {"none", "get_collections", "embedding", "create_collection",
              "create_payload_index"}

\* __init__ (lines 36-54) up to and with _create_collection_if_not_exists
\* (lines 56-84): the collections are listed; if the name is not among them
\* the probe text is embedded for the vector size, the collection is
\* created, then the keyword index on notebook_id is attached.  A call that
\* raises ends the run (and the construction) there.  The store is
\* constructed before it is used (lines 294-300).
create_collection_if_not_exists(fail) ==
  LET listed == fail # "get_collections"
      found == listed /\ collection # "absent"
      missing == listed /\ collection = "absent"
      probed == missing
      create_called == missing /\ fail # "embedding"
      created == create_called /\ fail # "create_collection"
      index_called == created
      indexed == index_called /\ fail # "create_payload_index"
  IN /\ calls = 0
     /\ (collection # "absent") => fail \in {"none", "get_collections"}
     /\ collection' = IF indexed THEN "indexed"
                      ELSE IF created THEN "created"
                      ELSE collection
     /\ creates' = IF created THEN creates + 1 ELSE creates
     /\ constructed' = (constructed \/ fail = "none")
     /\ last' = [op |-> "bootstrap",
                 outcome |-> IF fail = "none" THEN "returned" ELSE "raised",
                 found |-> found,
                 probes |-> IF probed THEN 1 ELSE 0,
                 create_calls |-> IF create_called THEN 1 ELSE 0,
                 index_calls |-> IF index_called THEN 1 ELSE 0]
     /\ UNCHANGED <<chunk_size, chunk_overlap, points, next_id, calls,
                    tmVars, plVars, hVars, cVars, mVars>>

\* What reading result.status.deleted (lines 291-292) gives.  The value is
\* the client library's: qdrant_client's delete returns an UpdateResult
\* whose status is the UpdateStatus enumeration (acknowledged, completed),
\* which has no attribute deleted, so the read raises AttributeError; a
\* result that carried the count would return it.
DeletedReads == {"raised", "returned"}

\* delete_by_notebook_id (lines 266-292): the filter selects the points
\* whose payload field notebook_id equals the argument (lines 277-284), the
\* delete call removes them (lines 286-289), then result.status.deleted is
\* read.  The record of the call keeps what the previous call was, for the
\* statements about two calls in succession.
delete_by_notebook_id(nb, read) ==
  LET hit(pt) == pt.payload.notebook_id = nb
      kept == SelectSeq(points, LAMBDA pt : ~hit(pt))
      removed == Len(points) - Len(kept)
      repeat == last.op = "delete_by_notebook_id" /\ last.notebook_id = nb
  IN /\ constructed
     /\ calls < MaxCalls
     /\ calls' = calls + 1
     /\ points' = kept
     /\ last' = [op |-> "delete_by_notebook_id", notebook_id |-> nb,
                 outcome |-> read,
                 ret |-> IF read = "returned" THEN <<removed>> ELSE <<>>,
                 removed |-> removed,
                 repeat |-> repeat,
                 prev_removed |-> IF repeat THEN last.removed ELSE 0]
     /\ UNCHANGED <<chunk_size, chunk_overlap, next_id, tmVars, plVars, hVars, cVars, bVars, mVars>>

\* _chunk_text called on its own with the store's configuration.
ChunkText(text) ==
  LET r == chunk_text(text, chunk_size, chunk_overlap)
  IN /\ calls = 0
     /\ calls' = 1
     /\ last' = [op |-> "chunk_text", content |-> text,
                 outcome |-> IF r.ok THEN "returned" ELSE "raised",
                 ret |-> r.chunks]
     /\ UNCHANGED <<chunk_size, chunk_overlap, points, next_id,
                    tmVars, plVars, hVars, cVars, bVars, mVars>>

\* ---------------------------------------------------------- specification
NoCall == [op |-> "none"]

\* The configuration of the store (lines 36-39) and an empty collection.
StoreInit(cfgs) ==
  /\ \E c \in cfgs : chunk_size = c[1] /\ chunk_overlap = c[2]
  /\ points = <<>>
  /\ next_id = 1
  /\ calls = 0
  /\ last = NoCall

\* The store as a complete __init__ leaves it.
Constructed ==
  /\ collection = "indexed"
  /\ creates = 1
  /\ constructed = TRUE

\* Before the first __init__: the vector index holds no collection.
NotConstructed ==
  /\ collection = "absent"
  /\ creates = 0
  /\ constructed = FALSE

\* No task has been submitted yet; the notebook exists.
TaskInit ==
  /\ task = [status |-> "absent", result |-> <<>>, error |-> <<>>]
  /\ notebook = [status |-> "not_started", message |-> "",
                 output |-> "old_output", title |-> "old_title",
                 topic |-> "old_topic"]
  /\ pc = "idle"
  /\ retry_count = 0
  /\ result = <<>>
  /\ exc = <<>>
  /\ ppc = "idle"
  /\ search_queries = <<>>
  /\ lc = <<>>
  /\ links = <<>>
  /\ ws = <<>>
  /\ scraped_data = <<>>
  /\ gather_exc = <<>>
  /\ invoked = {}
  /\ plan_failed = FALSE
  /\ merged = FALSE
  /\ out_of_order = FALSE
  /\ repo_fault = FALSE
  /\ attempts = 0
  /\ task_records = 0
  /\ scrape_out_of_order = FALSE
  /\ tasks = [t \in TaskIds |->
                [status |-> "absent", result |-> <<>>, error |-> <<>>]]
  /\ tpc = [t \in TaskIds |-> "idle"]
  /\ tretry = [t \in TaskIds |-> 0]
  /\ tres = [t \in TaskIds |-> <<>>]
  /\ texc = [t \in TaskIds |-> <<>>]

\* The inputs of the tasks when the specification is not about them.
NoInputs == tin = [t \in TaskIds |-> [topic |-> <<>>, sources |-> <<>>]]

\* One task, of any input shape, is about to be submitted.
Init ==
  /\ topic \in Topics
  /\ sources \in SourceLists
  /\ TaskInit
  /\ StoreInit({<<default_chunk_size, default_chunk_overlap>>})
  /\ Constructed
  /\ NoInputs

Next ==
  \/ submit_task_async
  \/ ExecNotebookInProgress
  \/ ExecTaskRunning
  \/ ExecDispatch
  \/ ExecSaveOutput
  \/ ExecUpdateNotebook
  \/ ExecTaskCompleted
  \/ ExecNotebookProcessed
  \/ \E msg \in ErrMsgs : ExecWriteRaises(msg)
  \/ ExecExcept
  \/ ExecTaskError
  \/ ExecNotebookError
  \/ \E msg \in ErrMsgs : ExecWriteEscapes(msg)
  \/ RunStart
  \/ \E msg \in ErrMsgs : RunAdapterFails(msg)
  \/ \E n \in 0..MaxQueries : PlanReturns(n)
  \/ \E msg \in ErrMsgs : PlanFails(msg)
  \/ \E q \in DOMAIN lc, us \in UrlSeqs : CollectCompletes(q, us)
  \/ \E q \in DOMAIN lc, msg \in ErrMsgs : CollectFails(q, msg)
  \/ CollectGathered
  \/ CollectGatherRaises
  \/ \E i \in DOMAIN ws : ScrapeCompletes(i)
  \/ \E i \in DOMAIN ws, msg \in ErrMsgs : ScrapeFails(i, msg)
  \/ ScrapeGathered
  \/ ScrapeGatherRaises
  \/ SynthReturns
  \/ \E msg \in ErrMsgs : SynthFails(msg)

Spec == Init /\ [][Next]_vars

\* Spec with the scheduling of the event loop: the task created by line 94
\* is run, and every call of a collaborator returns or raises, so a step
\* that can be taken is eventually taken.
FairSpec == Spec /\ WF_vars(Next)

\* Two tasks, of any input shapes, are about to be submitted against the
\* one notebook; their executions interleave at the awaits.
PairInit ==
  /\ topic = <<>>
  /\ sources = <<>>
  /\ TaskInit
  /\ StoreInit({<<default_chunk_size, default_chunk_overlap>>})
  /\ Constructed
  /\ tin \in [TaskIds -> Shapes]

PairNext ==
  \E t \in TaskIds :
    \/ SubmitT(t)
    \/ NotebookInProgressT(t)
    \/ TaskRunningT(t)
    \/ DispatchT(t)
    \/ RunReturnsT(t)
    \/ \E msg \in ErrMsgs : RunRaisesT(t, msg)
    \/ SaveOutputT(t)
    \/ UpdateNotebookT(t)
    \/ TaskCompletedT(t)
    \/ NotebookProcessedT(t)
    \/ \E msg \in ErrMsgs : WriteRaisesT(t, msg)
    \/ ExceptT(t)
    \/ TaskErrorT(t)
    \/ NotebookErrorT(t)
    \/ \E msg \in ErrMsgs : WriteEscapesT(t, msg)

PairSpec == PairInit /\ [][PairNext]_vars

\* The store on its own: a configuration, the construction, then calls.
StoreInitial ==
  /\ topic = <<>>
  /\ sources = <<>>
  /\ TaskInit
  /\ StoreInit({c \in Configs : c[1] = MaxStoreChunkSize})
  /\ NotConstructed
  /\ NoInputs

\* The contents of StoreSpec: the empty string, whitespace only, and the
\* plain texts of at most MaxStoreTokens tokens.
StoreTexts == {PlainText(n) : n \in 0..MaxStoreTokens} \cup {<<SP>>}

\* The notebook ids of the calls.
NotebookIds == {a.notebook_id : a \in SourceArgs}

StoreNext ==
  \/ \E fail \in BootFails : create_collection_if_not_exists(fail)
  \/ \E a \in SourceArgs, content \in StoreTexts,
        fail \in FailPoints(MaxStoreTokens + 1) :
          add_source(a.url, content, a.notebook_id, a.metadata, fail)
  \/ \E nb \in NotebookIds, read \in DeletedReads :
          delete_by_notebook_id(nb, read)

StoreSpec == StoreInitial /\ [][StoreNext]_vars

\* _chunk_text on its own: every configuration, every text.
ChunkInitial ==
  /\ topic = <<>>
  /\ sources = <<>>
  /\ TaskInit
  /\ StoreInit(Configs)
  /\ Constructed
  /\ NoInputs

ChunkNext == \E text \in Texts : ChunkText(text)

ChunkSpec == ChunkInitial /\ [][ChunkNext]_vars

\* ================================================================ claims
\* Task completed with Notebook processed, or Task failed with Notebook error.
TerminalPair ==
  \/ task.status = "completed" /\ notebook.status = "processed"
  \/ task.status = "failed" /\ notebook.status = "error"

\* The input shape that reaches the pipeline: a topic and no sources.
TopicOnly == HasTopic /\ ~HasSources

C2_TerminalWrittenOnce ==
  [][task.status \in {"completed", "failed"} => task' = task]_vars

\* C3: _execute_task never raises, and after any failure it returns with a
\* terminal Task/Notebook pair.
C3_NeverRaises ==
  /\ pc # "raised"
  /\ (pc = "done" /\ exc # <<>>) => TerminalPair

\* The scrapers have all ended, some with content and some with an exception.
ScrapedOk == {i \in DOMAIN ws : ws[i].st = "done"}
ScrapePartial ==
  /\ Running(ws) = {}
  /\ ScrapedOk # {}
  /\ \E i \in DOMAIN ws : ws[i].st = "failed"

\* The documents of the links whose scrape succeeded, in link order.
SuccessfulDocs ==
  LET idx == SelectSeq([i \in 1..Len(ws) |-> i], LAMBDA i : ws[i].st = "done")
  IN [k \in 1..Len(idx) |->
        [url |-> links[idx[k]].url, page_title |-> links[idx[k]].title,
         content |-> ws[idx[k]].raw]]

\* C4: when some but not all scrapes fail, the pipeline does not raise out of
\* the Scrape stage, and the research/content crew is started with the
\* documents of exactly the links whose scrape succeeded.
C4_PartialScrapeTolerated ==
  ScrapePartial =>
    /\ ppc = "raised" => "synth" \in invoked
    /\ "synth" \in invoked => scraped_data = SuccessfulDocs

RECURSIVE Flat(_)
Flat(rs) == IF rs = <<>> THEN <<>> ELSE Head(rs).links \o Flat(Tail(rs))

\* The position at which url u first appears in f.
FirstPos(f, u) ==
  CHOOSE k \in DOMAIN f : f[k].url = u /\ \A j \in 1..(k - 1) : f[j].url # u

\* ls holds one entry per url of f, the first one seen, in first-seen order.
Canonical(f, ls) ==
  /\ UrlsOf(ls) = UrlsOf(f)
  /\ \A i, j \in DOMAIN ls : i # j => ls[i].url # ls[j].url
  /\ \A i \in DOMAIN ls : ls[i] = f[FirstPos(f, ls[i].url)]
  /\ \A i, j \in DOMAIN ls :
       i < j => FirstPos(f, ls[i].url) < FirstPos(f, ls[j].url)

\* C6: the merge leaves in links exactly one entry per distinct url of the
\* collectors' lists, the first one seen when the lists are read in query
\* order, ordered by first appearance, in whatever order the collectors
\* completed.
C6_CanonicalLinks ==
  [][(~merged /\ merged') => Canonical(Flat(lc), links')]_vars

\* C6 witness: the collector of query 2 completed before that of query 1, its
\* first link repeated a url of query 1 and was dropped, its second was kept.
C6_Witness ==
  /\ merged /\ out_of_order
  /\ Len(links) = 2
  /\ links[1].title = <<1, 1>>
  /\ links[2].title = <<2, 2>>

\* The tokens and the chunks of the last _chunk_text call.
LastTokens == Split(last.content)
ChunkReturned == last.op = "chunk_text" /\ last.outcome = "returned"

\* The tokens of a chunk.
TokensOf(chunk) == {Split(chunk)[k] : k \in DOMAIN Split(chunk)}

\* C7: with chunk_size 5 and chunk_overlap 2, for a content of N >= 1 tokens
\* the k-th chunk starts at token offset 3 * (k - 1), and every token of the
\* content is in some chunk.
C7_AdvanceAndCoverage ==
  (ChunkReturned /\ chunk_size = 5 /\ chunk_overlap = 2 /\ Len(LastTokens) >= 1)
    => /\ \A k \in DOMAIN last.ret :
            /\ 3 * (k - 1) < Len(LastTokens)
            /\ Head(Split(last.ret[k])) = LastTokens[3 * (k - 1) + 1]
       /\ \A t \in DOMAIN LastTokens :
            \E k \in DOMAIN last.ret : LastTokens[t] \in TokensOf(last.ret[k])

\* The chunks the sliding pass is to give: one full window at each offset
\* k * (size - overlap) where it fits, then the tokens after the last full
\* window, if any, as one final chunk.
ExpectedChunks(tokens, size, overlap) ==
  LET step == size - overlap
      n == Len(tokens)
      fits == {k \in 0..n : k * step + size <= n}
      full == [k \in 1..Cardinality(fits) |->
                 Join(SubSeq(tokens, (k - 1) * step + 1, (k - 1) * step + size))]
      covered == IF fits = {} THEN 0
                 ELSE (Cardinality(fits) - 1) * step + size
  IN IF covered < n THEN Append(full, Join(SubSeq(tokens, covered + 1, n)))
     ELSE full

\* C8: for every configuration and every content, the chunks are the full
\* windows, followed by a final chunk exactly when tokens remain after the
\* last full window, holding exactly those tokens.
C8_FullWindowsThenRemainder ==
  ChunkReturned =>
    last.ret = ExpectedChunks(LastTokens, chunk_size, chunk_overlap)

\* C9: stored chunks of the same (url, notebook_id) have strictly increasing
\* chunk_index in insertion order and the same total_chunks, and a call that
\* returns gives the ids of the chunks it stored, in chunk order.
C9_GroupIndexIncreasing ==
  /\ \A a, b \in DOMAIN points :
       (/\ a < b
        /\ points[a].payload.url = points[b].payload.url
        /\ points[a].payload.notebook_id = points[b].payload.notebook_id)
       => /\ points[a].payload.chunk_index < points[b].payload.chunk_index
          /\ points[a].payload.total_chunks = points[b].payload.total_chunks
  /\ (last.op = "add_source" /\ last.outcome = "returned")
       => /\ Len(points) = last.first + Len(last.ret)
          /\ \A j \in DOMAIN last.ret :
               /\ points[last.first + j].id = last.ret[j]
               /\ points[last.first + j].payload.chunk_index = j - 1

\* C10: add_source with the empty string returns an empty list of ids without
\* raising, and makes no embedding call and no upsert.
C10_EmptyContent ==
  (last.op = "add_source" /\ last.content = <<>>)
    => /\ last.outcome = "returned"
       /\ last.ret = <<>>
       /\ last.embeds = 0
       /\ last.upserts = 0
       /\ Len(points) = last.first

\* C10 witness: add_source with the empty string has returned, on a store
\* that holds chunks.
C10_Witness ==
  /\ last.op = "add_source" /\ last.content = <<>>
  /\ last.outcome = "returned"
  /\ points # <<>>

\* C11: called for a notebook that holds at least one chunk,
\* delete_by_notebook_id does not raise, returns the nonzero number of
\* chunks it removed and leaves no chunk of the notebook; called again at
\* once for the same notebook it does not raise and returns exactly 0.
C11_DeleteTwice ==
  last.op = "delete_by_notebook_id" =>
    /\ last.removed > 0 =>
         /\ last.outcome = "returned"
         /\ last.ret = <<last.removed>>
         /\ \A i \in DOMAIN points :
              points[i].payload.notebook_id # last.notebook_id
    /\ (last.repeat /\ last.prev_removed > 0) =>
         /\ last.outcome = "returned"
         /\ last.ret = <<0>>

C13_ProcessedAfterCompleted ==
  /\ notebook.status = "processed" =>
       /\ task.status = "completed"
       /\ result # <<>> /\ task.result = result
       /\ notebook.title = result[1].title
       /\ notebook.topic = topic[1]
  /\ (pc = "done" /\ TopicOnly /\ exc = <<>>) => notebook.status = "processed"

\* C13 witness: a successful execution has returned.
C13_Witness ==
  /\ pc = "done" /\ ppc = "returned"
  /\ notebook.status = "processed" /\ task.status = "completed"

\* The message line 85 writes.
FailureMessage == "Research failed. Please try again."

\* C14: whatever the exception, a Notebook in error carries the one fixed
\* message; the text of the exception is in the Task's error field and in no
\* field of the Notebook.
C14_GenericFailureMessage ==
  /\ notebook.status = "error" =>
       /\ notebook.message = FailureMessage
       /\ task.error = exc
  /\ \A f \in DOMAIN notebook : notebook[f] \notin ErrMsgs

\* C14 witness: an execution failed with the exception E2, one of the two
\* exceptions, and wrote the Notebook in error.
C14_Witness ==
  /\ notebook.status = "error"
  /\ task.error = <<"E2">>

\* C15: the status of the Notebook only moves from its initial value to
\* in_progress, and from in_progress to processed or to error.
C15_NotebookStatusMonotonic ==
  [][notebook.status' # notebook.status =>
       <<notebook.status, notebook.status'>> \in
         {<<"not_started", "in_progress">>,
          <<"in_progress", "processed">>,
          <<"in_progress", "error">>}]_vars

\* C15 witness: the write of processed raised after the Task was completed,
\* and the handler has written the Notebook in error.
C15_Witness ==
  /\ notebook.status = "error"
  /\ task.result # <<>>
  /\ retry_count = 1

\* C16: a submitted Task eventually is completed or failed.
C16_EventuallyTerminal ==
  (task.status = "pending") ~> (task.status \in {"completed", "failed"})

\* C17: over any sequence of runs of _create_collection_if_not_exists the
\* collection is created at most once; a run that finds the collection
\* issues no probe embedding and no create call; and whenever a run returns
\* the collection exists with the keyword index attached.
C17_BootstrapIdempotent ==
  /\ creates <= 1
  /\ last.op = "bootstrap" =>
       /\ last.found => (last.probes = 0 /\ last.create_calls = 0)
       /\ last.outcome = "returned" => collection = "indexed"

\* C18: run_research_crew is called at most max_retries times, which is
\* once; after a failed attempt the execution is in the failure handler or
\* has ended; and one submission has created exactly one Task record.
C18_AttemptBudget ==
  /\ max_retries = 1
  /\ attempts <= max_retries
  /\ retry_count >= 1 => pc \in {"L80", "L82", "done", "raised"}
  /\ task_records <= 1
  /\ pc # "idle" => task_records = 1

\* C18 witness: the one attempt failed in the pipeline and the execution
\* returned with the Task failed.
C18_Witness ==
  /\ attempts = 1 /\ ppc = "raised"
  /\ retry_count = 1 /\ pc = "done"
  /\ task.status = "failed" /\ task_records = 1

\* C19: the pipeline is in a fan-out stage as long as an invocation the
\* stage launched is still running: it has not raised, returned or started
\* the next stage.
C19_JoinAllBarrier ==
  /\ ppc # "collect" => Running(lc) = {}
  /\ ppc # "scrape" => Running(ws) = {}

\* C20: one scraper is launched per canonical link, for the url of the
\* link; once the documents are built there is one per link, in link order,
\* with the url and title of the link and the content its scraper returned.
C20_ScrapePairing ==
  /\ merged =>
       /\ Len(ws) = Len(links)
       /\ \A i \in DOMAIN ws : ws[i].url = links[i].url
       /\ \A i, j \in DOMAIN links : links[i].url = links[j].url => i = j
  /\ "synth" \in invoked =>
       /\ Len(scraped_data) = Len(links)
       /\ \A i \in DOMAIN links :
            scraped_data[i] = [url |-> links[i].url,
                               page_title |-> links[i].title,
                               content |-> <<"raw", links[i].url>>]

\* C20 witness: two documents were built from scrapers that completed
\* against the link order.
C20_Witness ==
  /\ "synth" \in invoked
  /\ Len(scraped_data) = 2
  /\ scrape_out_of_order

\* C21 (as stated): whenever some task of the notebook is running, the
\* Notebook is in_progress.
C21_RunningImpliesInProgress ==
  \A t \in TaskIds :
    tasks[t].status = "running" => notebook.status = "in_progress"

\* C21 (amended): whenever a task is running and no other task has been
\* submitted against the notebook, the Notebook is in_progress.
C21_RunningAloneImpliesInProgress ==
  \A t \in TaskIds :
    (/\ tasks[t].status = "running"
     /\ \A u \in TaskIds \ {t} : tasks[u].status = "absent")
    => notebook.status = "in_progress"

\* C21 witness: a task is running alone, its pipeline has returned and its
\* result is being written.
C21_Witness ==
  /\ tasks["t1"].status = "running" /\ tasks["t2"].status = "absent"
  /\ tpc["t1"] = "L60"
  /\ notebook.status = "in_progress"

\* C22: an execution that has written the Task failed has left the saved
\* output, the title and the topic of the Notebook as they were before it
\* started.
C22_FailureLeavesNotebookContent ==
  task.status = "failed" =>
    /\ notebook.output = "old_output"
    /\ notebook.title = "old_title"
    /\ notebook.topic = "old_topic"

\* C23: for every configuration and every content _chunk_text returns; a
\* content without tokens gives no chunk; a content with at least one and
\* fewer than chunk_size tokens gives one chunk holding all of its tokens.
C23_ChunkingNeverRaises ==
  last.op = "chunk_text" =>
    /\ last.outcome = "returned"
    /\ Len(LastTokens) = 0 => last.ret = <<>>
    /\ (0 < Len(LastTokens) /\ Len(LastTokens) < chunk_size) =>
         last.ret = <<Join(LastTokens)>>

\* C24: every chunk an add_source call stored carries the notebook_id and
\* the url of the call, its position as chunk_index and the chunk count of
\* the content as total_chunks, whatever the extra metadata.
C24_CoreFieldsKept ==
  last.op = "add_source" =>
    \A i \in DOMAIN points :
      i > last.first =>
        /\ points[i].payload.notebook_id = last.notebook_id
        /\ points[i].payload.url = last.url
        /\ points[i].payload.chunk_index = i - last.first - 1
        /\ points[i].payload.total_chunks =
             Len(chunk_text(last.content, chunk_size, chunk_overlap).chunks)

\* C25: an add_source call that raised has left none of its chunks in the
\* collection.
C25_AllOrNothing ==
  (last.op = "add_source" /\ last.outcome = "raised") =>
    Len(points) = last.first

====
